---- MODULE Spec2Model ----
(***************************************************************************)
(* PriorityQueue<E> of src/PriorityQueue.h: a priority queue over an       *)
(* array-backed MinHeap.  The backing std::vector<HeapNode> is the         *)
(* sequence heap; C++ index i is position i+1 of the sequence.             *)
(***************************************************************************)
EXTENDS Integers, Sequences, FiniteSets, TLC

\* ---- bounds of the model ------------------------------------------------
MaxPrio == 1          \* client priorities are drawn from -1..MaxPrio
MaxSize == 4          \* calls that would grow the store beyond this are not made
MaxBatch == 2         \* longest vector handed to insert_all in Spec
MaxDrainPrio == 3     \* priorities of the populate-then-drain scenario: 0..MaxDrainPrio

Prio == -1..MaxPrio
LegalPrio == 0..MaxPrio
Val == {"a", "b"}
Default == ""         \* E(), the value-initialised element
DrainPrio == 0..MaxDrainPrio
DrainVal == {"a", "b", "c", "d"}

VARIABLES heap,   \* MinHeap::heap, the backing vector
          op,     \* name of the last PriorityQueue call
          arg,    \* its arguments
          ret,    \* its return value
          oob,    \* the last call read the vector outside 0..size-1
          phase,  \* "free" | "fill" | "drain"
          out,    \* priorities of the nodes removed while draining
          scan_i,      \* heapify's loop variable i, while heapify is stepped
          scan_solved  \* heapify's flag solved, while heapify is stepped

vars == <<heap, op, arg, ret, oob, phase, out, scan_i, scan_solved>>

\* ---- HeapNode -------------------------------------------------------------
HeapNode(newPriority, newValue) == [priority |-> newPriority, value |-> newValue]

NoArg == [priority |-> 0, value |-> Default, items |-> <<>>]
NoRet == "void"

\* int division of C++ truncates toward zero
CDiv(a, b) == IF a >= 0 THEN a \div b ELSE 0 - ((0 - a) \div b)

\* ---- MinHeap private helpers ----------------------------------------------
getSize(h) == Len(h)

getValue(h, index) == h[index + 1].value

getPriority(h, index) == h[index + 1].priority

swap_Clobber(h, indexOne, indexTwo) ==
  [h EXCEPT ![indexOne + 1] = h[indexTwo + 1]]

swap(h, indexOne, indexTwo) ==
  [h EXCEPT ![indexOne + 1] = h[indexTwo + 1], ![indexTwo + 1] = h[indexOne + 1]]

getParent(index) ==
  IF index % 2 = 1 THEN CDiv(index, 2) ELSE CDiv(index - 1, 2)

RECURSIVE findFirstFrom(_, _, _)
findFirstFrom(h, element, i) ==
  IF i < getSize(h)
    THEN IF getValue(h, i) = element THEN i ELSE findFirstFrom(h, element, i + 1)
    ELSE -1

findFirst(h, element) == findFirstFrom(h, element, 0)

heapifyBody_SwapOnEqual(h, index) ==
  IF getPriority(h, index) >= getPriority(h, index * 2)
    THEN [heap |-> swap(h, index, index * 2), swapped |-> TRUE]
  ELSE IF getPriority(h, index) >= getPriority(h, index * 2 + 1)
    THEN [heap |-> swap(h, index, index * 2 + 1), swapped |-> TRUE]
  ELSE [heap |-> h, swapped |-> FALSE]

heapifyBody_SmallerChild(h, index) ==
  LET smaller == IF getPriority(h, index * 2 + 1) < getPriority(h, index * 2)
                   THEN index * 2 + 1 ELSE index * 2
  IN IF getPriority(h, index) > getPriority(h, smaller)
       THEN [heap |-> swap(h, index, smaller), swapped |-> TRUE]
       ELSE [heap |-> h, swapped |-> FALSE]

heapifyBody_NoRight(h, index) ==
  IF getPriority(h, index) > getPriority(h, index * 2)
    THEN [heap |-> swap(h, index, index * 2), swapped |-> TRUE]
    ELSE [heap |-> h, swapped |-> FALSE]

\* body of the for loop of heapify for one index
heapifyBody(h, index) ==
  IF getPriority(h, index) > getPriority(h, index * 2)
    THEN [heap |-> swap(h, index, index * 2), swapped |-> TRUE]
  ELSE IF getPriority(h, index) > getPriority(h, index * 2 + 1)
    THEN [heap |-> swap(h, index, index * 2 + 1), swapped |-> TRUE]
  ELSE [heap |-> h, swapped |-> FALSE]

\* the for loop: i runs from size/2 down to 1, index = i-1
RECURSIVE heapifyScan(_, _, _)
heapifyScan(h, i, solved) ==
  IF i > 0
    THEN LET r == heapifyBody(h, i - 1)
         IN heapifyScan(r.heap, i - 1, solved /\ ~r.swapped)
    ELSE [heap |-> h, solved |-> solved]

\* the while loop: scans are repeated until one makes no swap
RECURSIVE heapify(_)
heapify(h) ==
  LET r == heapifyScan(h, CDiv(Len(h), 2), TRUE)
  IN IF r.solved THEN r.heap ELSE heapify(r.heap)

upHeapLoop_OneStep(h, i, parent) ==
  IF parent # i /\ getPriority(h, i) < getPriority(h, parent)
    THEN swap(h, i, parent)
    ELSE h

RECURSIVE upHeapLoop(_, _, _)
upHeapLoop(h, i, parent) ==
  IF parent # i /\ getPriority(h, i) < getPriority(h, parent)
    THEN upHeapLoop(swap(h, i, parent), parent, getParent(parent))
    ELSE h

upHeap(h) == upHeapLoop(h, Len(h) - 1, getParent(Len(h) - 1))

\* ---- MinHeap public methods -----------------------------------------------
\* getMin reads heap[0]; on an empty vector that read is out of range and
\* may yield any value of E
getMin(h) == IF Len(h) > 0 THEN {h[1].value} ELSE Val \cup {Default}

MinHeap_changePriority_AlwaysHeapify(h, element, newPriority) ==
  LET nodeIndex == findFirst(h, element)
  IN IF nodeIndex # -1
       THEN heapify([h EXCEPT ![nodeIndex + 1].priority = newPriority])
       ELSE heapify(h)

MinHeap_changePriority(h, element, newPriority) ==
  LET nodeIndex == findFirst(h, element)
  IN IF nodeIndex # -1
       THEN heapify([h EXCEPT ![nodeIndex + 1].priority = newPriority])
       ELSE h

MinHeap_removeFront_NoHeapify(h) ==
  SubSeq(swap(h, 0, Len(h) - 1), 1, Len(h) - 1)

MinHeap_removeFront_NoPop(h) == heapify(swap(h, 0, Len(h) - 1))

MinHeap_removeFront(h) ==
  heapify(SubSeq(swap(h, 0, Len(h) - 1), 1, Len(h) - 1))

MinHeap_insert_NoCheck(h, priority, element) ==
  upHeap(Append(h, HeapNode(priority, element)))

MinHeap_insert(h, priority, element) ==
  IF priority >= 0
    THEN upHeap(Append(h, HeapNode(priority, element)))
    ELSE h

RECURSIVE pushAll(_, _, _)
pushAll(h, newValues, i) ==
  IF i < Len(newValues)
    THEN pushAll(Append(h, HeapNode(newValues[i + 1][1], newValues[i + 1][2])),
                 newValues, i + 1)
    ELSE h

MinHeap_insertAll(h, newValues) == heapify(pushAll(h, newValues, 0))

\* ---- PriorityQueue methods, as functions of the store ---------------------
size(h) == getSize(h)

empty(h) == getSize(h) = 0

remove_front_Garbage(h) ==
  IF ~empty(h)
    THEN [heap |-> MinHeap_removeFront(h), ret |-> h[1].value]
    ELSE [heap |-> h, ret |-> "a"]

remove_front(h) ==
  IF ~empty(h)
    THEN [heap |-> MinHeap_removeFront(h), ret |-> h[1].value]
    ELSE [heap |-> h, ret |-> Default]

peek(h) == getMin(h)

RECURSIVE collectValues(_, _, _)
collectValues(h, i, elements) ==
  IF i < getSize(h)
    THEN collectValues(h, i + 1, Append(elements, getValue(h, i)))
    ELSE elements

get_all_elements(h) == collectValues(h, 0, <<>>)

RECURSIVE containsFrom(_, _, _)
containsFrom(h, element, i) ==
  IF i < getSize(h)
    THEN IF getValue(h, i) = element THEN TRUE ELSE containsFrom(h, element, i + 1)
    ELSE FALSE

contains(h, element) == containsFrom(h, element, 0)

\* the loop of get_priority; the else-if branch of the source has an empty body
RECURSIVE getPriorityLoop(_, _, _, _)
getPriorityLoop(h, element, i, lowest) ==
  IF i < getSize(h)
    THEN IF getValue(h, i) = element
           THEN IF lowest = -1
                  THEN getPriorityLoop(h, element, i + 1, getPriority(h, i))
                  ELSE getPriorityLoop(h, element, i + 1, lowest)
           ELSE getPriorityLoop(h, element, i + 1, lowest)
    ELSE lowest

get_priority(h, element) == getPriorityLoop(h, element, 0, -1)

RECURSIVE collectPriorities(_, _, _)
collectPriorities(h, i, priorities) ==
  IF i < getSize(h)
    THEN collectPriorities(h, i + 1, Append(priorities, getPriority(h, i)))
    ELSE priorities

get_all_priorities(h) == collectPriorities(h, 0, <<>>)

\* ---- vector indices read or written by each method ------------------------
InRange(touched, n) == touched \subseteq 0..(n - 1)

\* loops of the form for (i = 0; i < getSize(); i++) visit these indices
scanTouched(h) == {i \in 0..(getSize(h) - 1) : TRUE}

\* heapify visits index = i-1 for i = size/2 .. 1 and may read index, index*2
\* and index*2+1; swaps do not change the size
heapifyTouched_Std(h) ==
  UNION {{i - 1, (i - 1) * 2 + 1, (i - 1) * 2 + 2} : i \in 1..CDiv(Len(h), 2)}

heapifyTouched(h) ==
  UNION {{i - 1, (i - 1) * 2, (i - 1) * 2 + 1} : i \in 1..CDiv(Len(h), 2)}

\* upHeap reads heap[i] and heap[parent] whenever parent != i
RECURSIVE upHeapTouchedLoop(_, _, _)
upHeapTouchedLoop(h, i, parent) ==
  IF parent # i
    THEN {i, parent} \cup
         (IF InRange({i, parent}, Len(h)) /\ getPriority(h, i) < getPriority(h, parent)
            THEN upHeapTouchedLoop(swap(h, i, parent), parent, getParent(parent))
            ELSE {})
    ELSE {}

upHeapTouched(h) == upHeapTouchedLoop(h, Len(h) - 1, getParent(Len(h) - 1))

getMinTouched_Guarded(h) == IF Len(h) > 0 THEN {0} ELSE {}

getMinTouched(h) == {0}

insert_oob(h, priority, element) ==
  /\ priority >= 0
  /\ ~InRange(upHeapTouched(Append(h, HeapNode(priority, element))), Len(h) + 1)

insert_all_oob(h, newValues) ==
  ~InRange(heapifyTouched(pushAll(h, newValues, 0)), Len(h) + Len(newValues))

remove_front_oob(h) ==
  /\ ~empty(h)
  /\ \/ ~InRange(getMinTouched(h), Len(h))
     \/ ~InRange({0, Len(h) - 1}, Len(h))
     \/ ~InRange(heapifyTouched(SubSeq(h, 1, Len(h) - 1)), Len(h) - 1)

change_priority_oob(h, element) ==
  /\ findFirst(h, element) # -1
  /\ \/ ~InRange(scanTouched(h) \cup {findFirst(h, element)}, Len(h))
     \/ ~InRange(heapifyTouched(h), Len(h))

peek_oob(h) == ~InRange(getMinTouched(h), Len(h))

scan_oob(h) == ~InRange(scanTouched(h), Len(h))

\* ---- inputs ---------------------------------------------------------------
RECURSIVE SeqsUpTo(_, _)
SeqsUpTo(S, n) ==
  IF n = 0 THEN {<<>>}
  ELSE LET shorter == SeqsUpTo(S, n - 1)
       IN shorter \cup {Append(s, x) : s \in {t \in shorter : Len(t) = n - 1}, x \in S}

Batches == SeqsUpTo(Prio \X Val, MaxBatch)

LegalBatches == SeqsUpTo(LegalPrio \X Val, MaxBatch)

\* ---- the state machine: one action per PriorityQueue call ------------------
Init ==
  /\ heap = <<>>
  /\ op = "PriorityQueue"
  /\ arg = NoArg
  /\ ret = NoRet
  /\ oob = FALSE
  /\ phase = "free"
  /\ out = <<>>
  /\ scan_i = 0
  /\ scan_solved = TRUE

InsertFrom(P) ==
  \E priority \in P, element \in Val :
    /\ Len(heap) < MaxSize
    /\ heap' = MinHeap_insert(heap, priority, element)
    /\ op' = "insert"
    /\ arg' = [NoArg EXCEPT !.priority = priority, !.value = element]
    /\ ret' = NoRet
    /\ oob' = insert_oob(heap, priority, element)
    /\ UNCHANGED <<phase, out, scan_i, scan_solved>>

InsertAllFrom(B) ==
  \E new_elements \in B :
    /\ Len(heap) + Len(new_elements) <= MaxSize
    /\ heap' = MinHeap_insertAll(heap, new_elements)
    /\ op' = "insert_all"
    /\ arg' = [NoArg EXCEPT !.items = new_elements]
    /\ ret' = NoRet
    /\ oob' = insert_all_oob(heap, new_elements)
    /\ UNCHANGED <<phase, out, scan_i, scan_solved>>

ChangePriorityFrom(P) ==
  \E element \in Val, new_priority \in P :
    /\ heap' = MinHeap_changePriority(heap, element, new_priority)
    /\ op' = "change_priority"
    /\ arg' = [NoArg EXCEPT !.priority = new_priority, !.value = element]
    /\ ret' = NoRet
    /\ oob' = change_priority_oob(heap, element)
    /\ UNCHANGED <<phase, out, scan_i, scan_solved>>

Call_insert == InsertFrom(Prio)

Call_insert_all == InsertAllFrom(Batches)

Call_change_priority == ChangePriorityFrom(Prio)

Call_remove_front ==
  LET r == remove_front(heap)
  IN /\ heap' = r.heap
     /\ op' = "remove_front"
     /\ arg' = NoArg
     /\ ret' = r.ret
     /\ oob' = remove_front_oob(heap)
     /\ UNCHANGED <<phase, out, scan_i, scan_solved>>

Call_peek ==
  \E v \in peek(heap) :
    /\ op' = "peek"
    /\ arg' = NoArg
    /\ ret' = v
    /\ oob' = peek_oob(heap)
    /\ UNCHANGED <<heap, phase, out, scan_i, scan_solved>>

Call_get_all_elements ==
  /\ op' = "get_all_elements"
  /\ arg' = NoArg
  /\ ret' = get_all_elements(heap)
  /\ oob' = scan_oob(heap)
  /\ UNCHANGED <<heap, phase, out, scan_i, scan_solved>>

Call_contains ==
  \E element \in Val :
    /\ op' = "contains"
    /\ arg' = [NoArg EXCEPT !.value = element]
    /\ ret' = contains(heap, element)
    /\ oob' = scan_oob(heap)
    /\ UNCHANGED <<heap, phase, out, scan_i, scan_solved>>

Call_get_priority ==
  \E element \in Val :
    /\ op' = "get_priority"
    /\ arg' = [NoArg EXCEPT !.value = element]
    /\ ret' = get_priority(heap, element)
    /\ oob' = scan_oob(heap)
    /\ UNCHANGED <<heap, phase, out, scan_i, scan_solved>>

Call_get_all_priorities ==
  /\ op' = "get_all_priorities"
  /\ arg' = NoArg
  /\ ret' = get_all_priorities(heap)
  /\ oob' = scan_oob(heap)
  /\ UNCHANGED <<heap, phase, out, scan_i, scan_solved>>

Call_size ==
  /\ op' = "size"
  /\ arg' = NoArg
  /\ ret' = size(heap)
  /\ oob' = FALSE
  /\ UNCHANGED <<heap, phase, out, scan_i, scan_solved>>

Call_empty ==
  /\ op' = "empty"
  /\ arg' = NoArg
  /\ ret' = empty(heap)
  /\ oob' = FALSE
  /\ UNCHANGED <<heap, phase, out, scan_i, scan_solved>>

Next ==
  \/ Call_insert
  \/ Call_insert_all
  \/ Call_remove_front
  \/ Call_peek
  \/ Call_get_all_elements
  \/ Call_contains
  \/ Call_get_priority
  \/ Call_get_all_priorities
  \/ Call_change_priority
  \/ Call_size
  \/ Call_empty

Spec == Init /\ [][Next]_vars

\* ---- the same machine driven only with priorities >= 0 --------------------
Legal_insert == InsertFrom(LegalPrio)

Legal_insert_all == InsertAllFrom(LegalBatches)

Legal_change_priority == ChangePriorityFrom(LegalPrio)

NextLegal ==
  \/ Legal_insert
  \/ Legal_insert_all
  \/ Call_remove_front
  \/ Call_peek
  \/ Call_get_all_elements
  \/ Call_contains
  \/ Call_get_priority
  \/ Call_get_all_priorities
  \/ Legal_change_priority
  \/ Call_size
  \/ Call_empty

SpecLegal == Init /\ [][NextLegal]_vars

\* ---- populate from empty with distinct priorities and values, then drain --
PrioritiesIn(h) == {h[k].priority : k \in 1..Len(h)}

ValuesIn(h) == {h[k].value : k \in 1..Len(h)}

PairsDistinct(s) ==
  \A j, k \in 1..Len(s) : j # k => (s[j][1] # s[k][1] /\ s[j][2] # s[k][2])

DrainBatches == {s \in SeqsUpTo(DrainPrio \X DrainVal, MaxSize) : PairsDistinct(s)}

PriorityOfValue(h, v) == h[CHOOSE k \in 1..Len(h) : h[k].value = v].priority

InitDrain ==
  /\ heap = <<>>
  /\ op = "PriorityQueue"
  /\ arg = NoArg
  /\ ret = NoRet
  /\ oob = FALSE
  /\ phase = "fill"
  /\ out = <<>>
  /\ scan_i = 0
  /\ scan_solved = TRUE

Fill_insert ==
  \E priority \in DrainPrio, element \in DrainVal :
    /\ phase = "fill"
    /\ op \in {"PriorityQueue", "insert"}
    /\ Len(heap) < MaxSize
    /\ priority \notin PrioritiesIn(heap)
    /\ element \notin ValuesIn(heap)
    /\ heap' = MinHeap_insert(heap, priority, element)
    /\ op' = "insert"
    /\ arg' = [NoArg EXCEPT !.priority = priority, !.value = element]
    /\ ret' = NoRet
    /\ oob' = insert_oob(heap, priority, element)
    /\ UNCHANGED <<phase, out, scan_i, scan_solved>>

Fill_insert_all ==
  \E new_elements \in DrainBatches :
    /\ phase = "fill"
    /\ op = "PriorityQueue"
    /\ heap' = MinHeap_insertAll(heap, new_elements)
    /\ op' = "insert_all"
    /\ arg' = [NoArg EXCEPT !.items = new_elements]
    /\ ret' = NoRet
    /\ oob' = insert_all_oob(heap, new_elements)
    /\ UNCHANGED <<phase, out, scan_i, scan_solved>>

Drain_remove_front ==
  LET r == remove_front(heap)
  IN /\ phase \in {"fill", "drain"}
     /\ Len(heap) > 0
     /\ heap' = r.heap
     /\ op' = "remove_front"
     /\ arg' = NoArg
     /\ ret' = r.ret
     /\ oob' = remove_front_oob(heap)
     /\ phase' = "drain"
     /\ out' = Append(out, PriorityOfValue(heap, r.ret))
     /\ UNCHANGED <<scan_i, scan_solved>>

NextDrain ==
  \/ Fill_insert
  \/ Fill_insert_all
  \/ Drain_remove_front

SpecDrain == InitDrain /\ [][NextDrain]_vars

\* ---- shared definitions of the properties ---------------------------------
\* min-heap order with children at 2i+1 and 2i+2 (C++ indices)
MinHeapOrdered(h) ==
  \A i \in 0..(Len(h) - 1) :
    /\ (2 * i + 1 < Len(h) => h[i + 1].priority <= h[2 * i + 2].priority)
    /\ (2 * i + 2 < Len(h) => h[i + 1].priority <= h[2 * i + 3].priority)

IsMinimumNode(h, k) == \A j \in 1..Len(h) : h[k].priority <= h[j].priority

MatchesOf(h, v) == {k \in 1..Len(h) : h[k].value = v}

FirstMatch(h, v) == CHOOSE k \in MatchesOf(h, v) : \A j \in MatchesOf(h, v) : k <= j

\* ---- C1 ---------------------------------------------------------------------
\* C1: in every reachable state the backing sequence is a min-heap with
\* children at 2i+1 and 2i+2.
C1_HeapInvariant == MinHeapOrdered(heap)

\* ---- C2 ---------------------------------------------------------------------
\* C2: in every reachable non-empty state peek() returns the value of a node
\* whose priority is the smallest stored priority.
C2_PeekIsMinimum ==
  Len(heap) > 0 =>
    \A v \in peek(heap) :
      \E k \in 1..Len(heap) : heap[k].value = v /\ IsMinimumNode(heap, k)

\* ---- C3 ---------------------------------------------------------------------
\* C3: a queue populated from empty with pairwise distinct priorities and
\* values (single inserts, or one insert_all) hands its values back in
\* strictly ascending order of priority when drained by remove_front.
C3_DrainAscending ==
  \A j, k \in 1..Len(out) : j < k => out[j] < out[k]

\* ---- C4 ---------------------------------------------------------------------
\* C4: after change_priority(v, p) on a queue holding v, with p strictly
\* smaller than the priority of every other node, peek and the next
\* remove_front return v.
C4_ChangedToLowestIsFront ==
  [][ ( /\ op' = "change_priority"
        /\ contains(heap, arg'.value)
        /\ \A k \in 1..Len(heap) :
              k # FirstMatch(heap, arg'.value) => arg'.priority < heap[k].priority )
      => ( /\ peek(heap') = {arg'.value}
           /\ remove_front(heap').ret = arg'.value ) ]_vars

\* ---- C5 ---------------------------------------------------------------------
\* C5: in every reachable state every stored node has a non-negative priority.
C5_PrioritiesNonNegative ==
  \A k \in 1..Len(heap) : heap[k].priority >= 0

\* ---- C6 ---------------------------------------------------------------------
\* C6: size() grows by 1 on insert with priority >= 0, by k on insert_all of k
\* items, shrinks by 1 on remove_front of a non-empty queue, is unchanged by
\* change_priority, peek (non-empty), contains and get_priority; empty() is
\* true exactly when size() = 0.
C6_SizeChanges ==
  [][ /\ (op' = "insert" /\ arg'.priority >= 0 => size(heap') = size(heap) + 1)
      /\ (op' = "insert_all" => size(heap') = size(heap) + Len(arg'.items))
      /\ (op' = "remove_front" /\ size(heap) > 0 => size(heap') = size(heap) - 1)
      /\ (op' = "change_priority" => size(heap') = size(heap))
      /\ (op' = "peek" /\ size(heap) > 0 => size(heap') = size(heap))
      /\ (op' \in {"contains", "get_priority"} => size(heap') = size(heap))
      /\ (op' = "empty" => (ret' = TRUE <=> size(heap') = 0)) ]_vars

C6_Witness ==
  /\ op = "remove_front"
  /\ ret \in Val
  /\ Len(heap) = MaxSize - 1

\* ---- C7 ---------------------------------------------------------------------
\* C7: insert(p, v) with p < 0 leaves the backing sequence, size(),
\* get_all_elements() and get_all_priorities() exactly as they were.
C7_NegativeInsertNoOp ==
  [][ (op' = "insert" /\ arg'.priority < 0)
      => ( /\ heap' = heap
           /\ size(heap') = size(heap)
           /\ get_all_elements(heap') = get_all_elements(heap)
           /\ get_all_priorities(heap') = get_all_priorities(heap) ) ]_vars

C7_Witness ==
  /\ op = "insert"
  /\ arg.priority < 0
  /\ Len(heap) > 0

\* ---- C8 ---------------------------------------------------------------------
\* C8: remove_front on an empty queue returns E(), leaves the store untouched,
\* size() = 0 and empty() = true.
C8_EmptyRemoveFront ==
  [][ (op' = "remove_front" /\ size(heap) = 0)
      => ( /\ ret' = Default
           /\ heap' = heap
           /\ size(heap') = 0
           /\ empty(heap') ) ]_vars

C8_Witness ==
  /\ op = "remove_front"
  /\ ret = Default
  /\ heap = <<>>

\* ---- C9 ---------------------------------------------------------------------
\* C9: get_priority(v) returns the priority of the smallest-index node whose
\* value is v, and -1 when no node has value v.
C9_GetPriorityFirstFound ==
  op = "get_priority" =>
    ret = IF MatchesOf(heap, arg.value) = {}
            THEN -1
            ELSE heap[FirstMatch(heap, arg.value)].priority

\* ---- C10 --------------------------------------------------------------------
\* C10: when several nodes have value v, get_priority(v) returns the lowest
\* priority among them.
C10_GetPriorityLowest ==
  (op = "get_priority" /\ Cardinality(MatchesOf(heap, arg.value)) > 1) =>
    /\ \E k \in MatchesOf(heap, arg.value) : ret = heap[k].priority
    /\ \A k \in MatchesOf(heap, arg.value) : ret <= heap[k].priority

\* ---- heapify stepped one loop iteration at a time, on any content -----------
HeapifyNodes == {HeapNode(p, "a") : p \in Prio}

InitHeapify ==
  /\ heap \in SeqsUpTo(HeapifyNodes, MaxSize)
  /\ op = "heapify"
  /\ arg = NoArg
  /\ ret = FALSE            \* some scan has swapped
  /\ oob = FALSE
  /\ phase = "while"
  /\ out = <<>>
  /\ scan_i = 0
  /\ scan_solved = FALSE

\* while (!solved) { solved = true; for (int i = heap.size()/2; ...
Heapify_while_enter ==
  /\ phase = "while"
  /\ ~scan_solved
  /\ scan_solved' = TRUE
  /\ scan_i' = CDiv(Len(heap), 2)
  /\ phase' = "for"
  /\ op' = "while"
  /\ UNCHANGED <<heap, arg, ret, oob, out>>

\* while (!solved) fails: heapify returns
Heapify_while_exit ==
  /\ phase = "while"
  /\ scan_solved
  /\ phase' = "done"
  /\ op' = "return"
  /\ UNCHANGED <<heap, arg, ret, oob, out, scan_i, scan_solved>>

\* one iteration of the for loop
Heapify_for_body ==
  /\ phase = "for"
  /\ scan_i > 0
  /\ LET index == scan_i - 1
         r == heapifyBody(heap, index)
     IN /\ heap' = r.heap
        /\ scan_solved' = (scan_solved /\ ~r.swapped)
        /\ ret' = (ret \/ r.swapped)
        /\ op' = IF ~r.swapped THEN "no_swap"
                 ELSE IF r.heap = swap(heap, index, index * 2) THEN "swap_left"
                 ELSE "swap_right"
  /\ scan_i' = scan_i - 1
  /\ UNCHANGED <<arg, oob, phase, out>>

\* i > 0 fails: the for loop ends
Heapify_for_exit ==
  /\ phase = "for"
  /\ scan_i = 0
  /\ phase' = "while"
  /\ op' = "for_end"
  /\ UNCHANGED <<heap, arg, ret, oob, out, scan_i, scan_solved>>

NextHeapify ==
  \/ Heapify_while_enter
  \/ Heapify_while_exit
  \/ Heapify_for_body
  \/ Heapify_for_exit

SpecHeapify == InitHeapify /\ [][NextHeapify]_vars

\* a call that has started runs on: the program is sequential
SpecHeapifyFair == InitHeapify /\ [][NextHeapify]_vars /\ WF_vars(NextHeapify)

\* ---- C14 --------------------------------------------------------------------
\* C14: heapify terminates on every finite content of the backing sequence
\* (any size, duplicates and negative priorities included).
C14_HeapifyTerminates == <>(phase = "done")

C14_Witness ==
  /\ phase = "done"
  /\ ret = TRUE
  /\ Len(heap) = MaxSize

\* ---- C15 --------------------------------------------------------------------
\* C15 (as claimed): a visited node whose priority is greater than that of at
\* least one of its children is swapped with the child of smaller priority.
C15_SwapsWithSmallerChild ==
  [][ (phase = "for" /\ scan_i > 0) =>
      LET index == scan_i - 1
          left == getPriority(heap, index * 2)
          right == getPriority(heap, index * 2 + 1)
          least == IF right < left THEN right ELSE left
      IN getPriority(heap, index) > least =>
           \E c \in {index * 2, index * 2 + 1} :
              /\ getPriority(heap, c) = least
              /\ heap' = swap(heap, index, c) ]_vars

\* C15 (amended): the visited node is swapped with the node at index*2 when
\* that node's priority is smaller than its own; otherwise with the node at
\* index*2+1 when that one's priority is smaller; otherwise nothing moves.
C15_SwapsWithFirstSmallerChild ==
  [][ (phase = "for" /\ scan_i > 0) =>
      LET index == scan_i - 1
      IN heap' = IF getPriority(heap, index) > getPriority(heap, index * 2)
                   THEN swap(heap, index, index * 2)
                 ELSE IF getPriority(heap, index) > getPriority(heap, index * 2 + 1)
                   THEN swap(heap, index, index * 2 + 1)
                 ELSE heap ]_vars

\* the step swapped with index*2 although index*2+1 held a smaller priority
C15_Witness ==
  /\ op = "swap_left"
  /\ scan_i >= 1
  /\ getPriority(heap, scan_i) > getPriority(heap, scan_i * 2 + 1)

NodesOf(h) == {h[k] : k \in 1..Len(h)}

Count(h, n) == Cardinality({k \in 1..Len(h) : h[k] = n})

SameNodes(g, h) ==
  /\ Len(g) = Len(h)
  /\ \A n \in NodesOf(g) \cup NodesOf(h) : Count(g, n) = Count(h, n)

LowestMatch(h, v) ==
  CHOOSE k \in MatchesOf(h, v) : \A j \in MatchesOf(h, v) : h[k].priority <= h[j].priority

NodesOfItems(items) == [k \in 1..Len(items) |-> HeapNode(items[k][1], items[k][2])]

\* ---- C11 --------------------------------------------------------------------
\* C11: with several nodes of value v stored, change_priority(v, p) rewrites
\* the priority of the match with the smallest priority, and of no other node.
C11_ChangesLowestMatch ==
  [][ (op' = "change_priority" /\ Cardinality(MatchesOf(heap, arg'.value)) > 1)
      => SameNodes(heap', [heap EXCEPT ![LowestMatch(heap, arg'.value)].priority
                                          = arg'.priority]) ]_vars

\* ---- C12 --------------------------------------------------------------------
\* C12: change_priority(v, p) for a value v that no node holds leaves the
\* backing sequence exactly as it was; no re-heapify swap happens.
C12_AbsentValueNoOp ==
  [][ (op' = "change_priority" /\ MatchesOf(heap, arg'.value) = {})
      => heap' = heap ]_vars

\* the call was made on a store that a heapify run would have rearranged
C12_Witness ==
  /\ op = "change_priority"
  /\ MatchesOf(heap, arg.value) = {}
  /\ heapify(heap) # heap

\* ---- C13 --------------------------------------------------------------------
\* C13: insert(p, v) with p >= 0 on a store that is a min-heap (children at
\* 2i+1, 2i+2) leaves a min-heap, with a minimum-priority node at index 0.
C13_InsertPreservesHeap ==
  [][ (op' = "insert" /\ arg'.priority >= 0 /\ MinHeapOrdered(heap))
      => (MinHeapOrdered(heap') /\ IsMinimumNode(heap', 1)) ]_vars

\* the inserted node was sifted from the last index up to the root
C13_Witness ==
  /\ op = "insert"
  /\ arg.priority >= 0
  /\ Len(heap) = MaxSize
  /\ MinHeapOrdered(heap)
  /\ heap[1] = HeapNode(arg.priority, arg.value)
  /\ \A k \in 2..Len(heap) : heap[k].priority > arg.priority

C16_AccessesInRange ==
  op \in {"insert", "insert_all", "remove_front", "change_priority", "contains",
          "get_priority", "get_all_elements", "get_all_priorities"}
  => ~oob

C16_Witness ==
  /\ op = "change_priority"
  /\ MatchesOf(heap, arg.value) # {}
  /\ Len(heap) = MaxSize
  /\ ~oob

\* ---- C17 --------------------------------------------------------------------
\* C17: peek() on an empty queue reads index 0 of an empty backing sequence,
\* an out-of-range access; remove_front on an empty queue makes none.
C17_PeekUnguarded ==
  /\ (op = "peek" /\ size(heap) = 0) => oob
  /\ (op = "remove_front" /\ size(heap) = 0) => ~oob

C17_Witness ==
  /\ op = "peek"
  /\ heap = <<>>
  /\ oob

====
